---- MODULE Spec2Model ----
(***************************************************************************)
(* Model of dvdlogo.go: the Game struct, Game.Update (with the call to     *)
(* Game.handleKeyPresses) and the construction of the Game in main.        *)
(*                                                                         *)
(* float64 positions and velocities are fixed-point integers counting      *)
(* 1/Scale of a pixel; the only non-integer operation of the source, the   *)
(* product dx * nudgeAmount / 1000, is rounded toward zero to that unit.   *)
(* One step of the model is one call of Update by the host (ebiten.RunGame)*)
(* which stops calling once Update has returned ebiten.Termination.        *)
(***************************************************************************)
EXTENDS Integers, FiniteSets, Sequences, TLC

\* ---------------------------------------------------------------- bounds
MaxTicks == 4          \* number of Update calls explored
MaxIdleTicks == 1400   \* number of Update calls explored with no input
Scale == 2000          \* fixed-point units per pixel

\* ------------------------------------------------------------- constants
screenWidth == 800
screenHeight == 600
logoWidth == 120
logoStartVelocity == 2
logoMaxVelocity == 3
cornerTolerance == 5
NudgeDivisor == 2000   \* 1000 / nudgeAmount, nudgeAmount = 0.5
logoHeight == 60       \* scale * image height, fixed once the image is decoded

KeyEscape == "KeyEscape"
KeyC == "KeyC"
KeyQ == "KeyQ"
Keys == {KeyEscape, KeyC, KeyQ}

Nil == "nil"
Termination == "Termination"

\* start positions drawn by main (a subset of rand.Intn's range), in pixels
StartXs == {0, 676}
StartYs == {0, 536}

\* what the Input Source can report in one tick
KeyInputs == [Keys -> BOOLEAN]
\* (the second cursor is where a nudge cancels the start velocity on both
\* axes one tick after a start at the origin)
Cursors == {<<6000, 6000>>, <<-3938, -3968>>}
MouseInputs == {[down |-> FALSE, x |-> 0, y |-> 0]}
                 \cup {[down |-> TRUE, x |-> c[1], y |-> c[2]] : c \in Cursors}

VARIABLES logoX, logoY, velocityX, velocityY, cornerHits, hitCorner,
          paused, terminated, keyState,
          keys, mouse, ret, ticks,
          startPaused, engineRan, cResumed, escToggles, cResumes

vars == <<logoX, logoY, velocityX, velocityY, cornerHits, hitCorner,
          paused, terminated, keyState,
          keys, mouse, ret, ticks,
          startPaused, engineRan, cResumed, escToggles, cResumes>>

\* -------------------------------------------------------------- helpers
Abs(n) == IF n < 0 THEN -n ELSE n

\* math.Copysign(m, v) for a magnitude m >= 0
Copysign(m, v) == IF v < 0 THEN -m ELSE m

\* n / d rounded toward zero (d > 0)
DivTrunc(n, d) == IF n < 0 THEN -((-n) \div d) ELSE n \div d

MaxX == (screenWidth - logoWidth) * Scale
MaxY == (screenHeight - logoHeight) * Scale
MaxV == logoMaxVelocity * Scale
Tol == cornerTolerance * Scale

\* ------------------------------------------------- Game.handleKeyPresses
\* p, t, ks: the paused, terminated and keyState fields on entry;
\* k: the down-state ebiten.IsKeyPressed reports for each key.

\* a held Escape is taken for a new press on every tick
EscapeStepNoEdge(p, ks, k) ==
    [paused |-> IF k[KeyEscape] THEN ~p ELSE p,
     keyState |-> [ks EXCEPT ![KeyEscape] = k[KeyEscape]],
     escToggled |-> k[KeyEscape]]

\* lines 110-117: Escape toggles paused on its down-transition
EscapeStep(p, ks, k) ==
    LET escFresh == k[KeyEscape] /\ ~ks[KeyEscape]
    IN  [paused |-> IF escFresh THEN ~p ELSE p,
         keyState |-> [ks EXCEPT ![KeyEscape] = k[KeyEscape]],
         escToggled |-> escFresh]

\* the Continue key is recorded but never clears paused
MenuStepNoContinue(p, t, ks, k) ==
    IF p
    THEN [paused |-> p,
          terminated |-> IF k[KeyQ] THEN TRUE ELSE t,
          keyState |-> [ks EXCEPT ![KeyC] = k[KeyC], ![KeyQ] = k[KeyQ]],
          cResumed |-> FALSE]
    ELSE [paused |-> p, terminated |-> t, keyState |-> ks, cResumed |-> FALSE]

\* lines 119-137: the pause menu keys, polled only while paused
MenuStep(p, t, ks, k) ==
    IF p
    THEN LET cFresh == k[KeyC] /\ ~ks[KeyC]
         IN  [paused |-> IF cFresh THEN FALSE ELSE p,
              terminated |-> IF k[KeyQ] THEN TRUE ELSE t,
              keyState |-> [ks EXCEPT ![KeyC] = k[KeyC], ![KeyQ] = k[KeyQ]],
              cResumed |-> cFresh]
    ELSE [paused |-> p, terminated |-> t, keyState |-> ks, cResumed |-> FALSE]

handleKeyPresses(p, t, ks, k) ==
    LET e == EscapeStep(p, ks, k)
        n == MenuStep(e.paused, t, e.keyState, k)
    IN  [paused |-> n.paused,
         terminated |-> n.terminated,
         keyState |-> n.keyState,
         escToggled |-> e.escToggled,
         cResumed |-> n.cResumed]

\* ------------------------------------------------------ the Motion Engine
\* the high wall reverses the velocity but leaves the position outside
CollideNoClamp(pos, vel, size, limit) ==
    LET p0 == pos + vel
        lo == IF p0 < 0 THEN [p |-> 0, v |-> -vel] ELSE [p |-> p0, v |-> vel]
    IN  IF lo.p + size > limit
        THEN [p |-> lo.p, v |-> -lo.v]
        ELSE lo

\* the low wall clamps the position but does not reverse the velocity
CollideNoReflect(pos, vel, size, limit) ==
    LET p0 == pos + vel
        lo == IF p0 < 0 THEN [p |-> 0, v |-> vel] ELSE [p |-> p0, v |-> vel]
    IN  IF lo.p + size > limit
        THEN [p |-> limit - size, v |-> -lo.v]
        ELSE lo

\* a bounce loses half of the speed
CollideDamped(pos, vel, size, limit) ==
    LET p0 == pos + vel
        lo == IF p0 < 0 THEN [p |-> 0, v |-> -(vel \div 2)] ELSE [p |-> p0, v |-> vel]
    IN  IF lo.p + size > limit
        THEN [p |-> limit - size, v |-> -(lo.v \div 2)]
        ELSE lo

\* the high wall clamps the position but does not reverse the velocity
CollideStickHigh(pos, vel, size, limit) ==
    LET p0 == pos + vel
        lo == IF p0 < 0 THEN [p |-> 0, v |-> -vel] ELSE [p |-> p0, v |-> vel]
    IN  IF lo.p + size > limit
        THEN [p |-> limit - size, v |-> lo.v]
        ELSE lo

\* One axis of lines 58-78: integrate, then the low wall, then the high wall.
Collide(pos, vel, size, limit) ==
    LET p0 == pos + vel
        lo == IF p0 < 0 THEN [p |-> 0, v |-> -vel] ELSE [p |-> p0, v |-> vel]
    IN  IF lo.p + size > limit
        THEN [p |-> limit - size, v |-> -lo.v]
        ELSE lo

\* only the bands at the left and top edges are tested
InCornerLowOnly(x, y) ==
    /\ x < Tol
    /\ y < Tol

\* lines 81-82: the post-collision position lies in a corner band
InCorner(x, y) ==
    /\ (x < Tol \/ x > MaxX - Tol)
    /\ (y < Tol \/ y > MaxY - Tol)

\* the counter is bumped once for the x band and once more for the y band
CornerCheckPerAxis(x, y, hits) ==
    IF InCorner(x, y)
    THEN [cornerHits |-> hits + 2, hitCorner |-> TRUE]
    ELSE [cornerHits |-> hits, hitCorner |-> FALSE]

\* lines 60 and 81-86: reset hitCorner, then count a corner hit
CornerCheck(x, y, hits) ==
    IF InCorner(x, y)
    THEN [cornerHits |-> hits + 1, hitCorner |-> TRUE]
    ELSE [cornerHits |-> hits, hitCorner |-> FALSE]

\* the clamp is left out
ClampVelocityNone(v) == v

\* the limit is stored without the sign of the velocity
ClampVelocityUnsigned(v) == IF Abs(v) > MaxV THEN MaxV ELSE v

\* lines 97-102: one axis of the clamp
ClampVelocity(v) == IF Abs(v) > MaxV THEN Copysign(MaxV, v) ELSE v

\* lines 91-94 and the clamp: one axis of the pointer nudge;
\* cursor in pixels, pos and size in units, half the logo added to pos.
Nudge(v, cursor, pos, size) ==
    LET d == cursor * Scale - (pos + size \div 2)
    IN  ClampVelocity(v + DivTrunc(d, NudgeDivisor))

\* the nudge is applied whether or not the pointer button is down
AdvanceAlwaysNudge(x, y, vx, vy, hits, m) ==
    LET cx == Collide(x, vx, logoWidth * Scale, screenWidth * Scale)
        cy == Collide(y, vy, logoHeight * Scale, screenHeight * Scale)
        cc == CornerCheck(cx.p, cy.p, hits)
    IN  [logoX |-> cx.p,
         logoY |-> cy.p,
         velocityX |-> Nudge(cx.v, m.x, cx.p, logoWidth * Scale),
         velocityY |-> Nudge(cy.v, m.y, cy.p, logoHeight * Scale),
         cornerHits |-> cc.cornerHits,
         hitCorner |-> cc.hitCorner]

\* lines 58-103 as a function of the fields and the pointer input
Advance(x, y, vx, vy, hits, m) ==
    LET cx == Collide(x, vx, logoWidth * Scale, screenWidth * Scale)
        cy == Collide(y, vy, logoHeight * Scale, screenHeight * Scale)
        cc == CornerCheck(cx.p, cy.p, hits)
    IN  [logoX |-> cx.p,
         logoY |-> cy.p,
         velocityX |-> IF m.down THEN Nudge(cx.v, m.x, cx.p, logoWidth * Scale) ELSE cx.v,
         velocityY |-> IF m.down THEN Nudge(cy.v, m.y, cy.p, logoHeight * Scale) ELSE cy.v,
         cornerHits |-> cc.cornerHits,
         hitCorner |-> cc.hitCorner]

\* ------------------------------------------------------------------ main
Init ==
    /\ logoX \in {x * Scale : x \in StartXs}
    /\ logoY \in {y * Scale : y \in StartYs}
    /\ velocityX = logoStartVelocity * Scale
    /\ velocityY = logoStartVelocity * Scale
    /\ cornerHits = 0
    /\ hitCorner = FALSE
    /\ paused = FALSE
    /\ terminated = FALSE
    /\ keyState = [key \in Keys |-> FALSE]
    /\ keys = [key \in Keys |-> FALSE]
    /\ mouse = [down |-> FALSE, x |-> 0, y |-> 0]
    /\ ret = Nil
    /\ ticks = 0
    /\ startPaused = FALSE
    /\ engineRan = FALSE
    /\ cResumed = FALSE
    /\ escToggles = 0
    /\ cResumes = 0

\* ----------------------------------------------------------- Game.Update
\* What a tick records besides the Game fields: the inputs it polled (keys,
\* mouse), whether it started paused, whether it reached line 58
\* (engineRan), whether line 123 ran (cResumed), and how often line 112 and
\* line 123 ran while Escape, resp. the Continue key, stayed down without a
\* release (escToggles, cResumes).
Observe(k, m, h) ==
    /\ keys' = k
    /\ mouse' = m
    /\ startPaused' = paused
    /\ ticks' = ticks + 1
    /\ cResumed' = h.cResumed
    /\ escToggles' = IF k[KeyEscape]
                     THEN (IF keys[KeyEscape] THEN escToggles ELSE 0)
                          + (IF h.escToggled THEN 1 ELSE 0)
                     ELSE 0
    /\ cResumes' = IF k[KeyC]
                   THEN (IF keys[KeyC] THEN cResumes ELSE 0)
                        + (IF h.cResumed THEN 1 ELSE 0)
                   ELSE 0

\* lines 51-56: the early return of a paused tick
PausedReturn(h) ==
    /\ ret' = IF h.terminated THEN Termination ELSE Nil
    /\ engineRan' = FALSE
    /\ UNCHANGED <<logoX, logoY, velocityX, velocityY, cornerHits, hitCorner>>

\* lines 58-105: the Motion Engine, then return nil
Motion(m) ==
    LET a == Advance(logoX, logoY, velocityX, velocityY, cornerHits, m)
    IN  /\ logoX' = a.logoX
        /\ logoY' = a.logoY
        /\ velocityX' = a.velocityX
        /\ velocityY' = a.velocityY
        /\ cornerHits' = a.cornerHits
        /\ hitCorner' = a.hitCorner
        /\ ret' = Nil
        /\ engineRan' = TRUE

\* the paused check is left out: every tick runs the Motion Engine
UpdateNoPauseCheck(k, m) ==
    /\ ret = Nil
    /\ LET h == handleKeyPresses(paused, terminated, keyState, k)
       IN  /\ paused' = h.paused
           /\ terminated' = h.terminated
           /\ keyState' = h.keyState
           /\ Observe(k, m, h)
           /\ Motion(m)

\* One tick: the host calls Update while no call has returned Termination.
\* k and m are what the Input Source reports during this tick.
Update(k, m) ==
    /\ ret = Nil
    /\ LET h == handleKeyPresses(paused, terminated, keyState, k)
       IN  /\ paused' = h.paused
           /\ terminated' = h.terminated
           /\ keyState' = h.keyState
           /\ Observe(k, m, h)
           /\ IF h.paused THEN PausedReturn(h) ELSE Motion(m)

Next == ticks < MaxTicks /\ \E k \in KeyInputs, m \in MouseInputs : Update(k, m)

Spec == Init /\ [][Next]_vars

\* A run in which no key is ever down and the pointer button is never held.
\* The host calls Update on every frame for as long as it returns nil.
NoKeys == [key \in Keys |-> FALSE]
NoMouse == [down |-> FALSE, x |-> 0, y |-> 0]

NextIdle == ticks < MaxIdleTicks /\ Update(NoKeys, NoMouse)

SpecIdle == Init /\ [][NextIdle]_vars /\ WF_vars(NextIdle)

TypeOK ==
    /\ logoX \in Int /\ logoY \in Int
    /\ velocityX \in Int /\ velocityY \in Int
    /\ cornerHits \in Nat
    /\ hitCorner \in BOOLEAN /\ paused \in BOOLEAN /\ terminated \in BOOLEAN
    /\ keyState \in KeyInputs /\ keys \in KeyInputs
    /\ mouse \in MouseInputs
    /\ ret \in {Nil, Termination}
    /\ ticks \in Nat
    /\ startPaused \in BOOLEAN /\ engineRan \in BOOLEAN /\ cResumed \in BOOLEAN
    /\ escToggles \in 0..MaxTicks /\ cResumes \in 0..MaxTicks

\* ---------------------------------------------------------------- claims
Fresh(key) == keys'[key] /\ ~keys[key]

\* C1: whenever the terminated flag is set at the end of a tick, that tick
\* returned ebiten.Termination and did not run the Motion Engine.
C1_TerminatedEndsProgram ==
    terminated => (ret = Termination /\ ~engineRan)

\* C2: a tick that starts Running and sees a fresh Escape press ends Paused,
\* whatever the other keys do.
C2_FreshEscapePauses ==
    [][(~paused /\ Fresh(KeyEscape)) => paused']_vars

\* C3: a tick that starts Paused with the Quit key down ends Terminated with
\* termination signalled.
C3_QuitWhilePausedTerminates ==
    [][(paused /\ keys'[KeyQ]) => (terminated' /\ ret' = Termination)]_vars

\* C4: the Continue key clears paused only on a tick in which it is down and
\* was not down on the tick before.
C4_ContinueEdgeTriggered ==
    [][cResumed' => Fresh(KeyC)]_vars

\* C5: a tick that ends Paused leaves position, velocity, cornerHits and
\* hitCorner unchanged.
C5_PauseFreeze ==
    [][paused' => UNCHANGED <<logoX, logoY, velocityX, velocityY,
                              cornerHits, hitCorner>>]_vars

\* a second and later paused tick, with the pointer button reported down
C5_Witness ==
    paused /\ startPaused /\ mouse.down /\ ticks >= 3 /\ ~engineRan

\* C6: after every tick the logo lies inside the viewport.
C6_PositionInBounds ==
    /\ 0 <= logoX /\ logoX <= MaxX
    /\ 0 <= logoY /\ logoY <= MaxY

\* the logo has just been clamped to the right wall and reflected
C6_Witness ==
    engineRan /\ logoX = MaxX /\ velocityX < 0

\* C7: each velocity component stays within logoMaxVelocity.
C7_VelocityBounded ==
    /\ Abs(velocityX) <= MaxV
    /\ Abs(velocityY) <= MaxV

\* a nudge has pushed a component to the limit, where the clamp holds it
C7_Witness ==
    engineRan /\ mouse.down /\ Abs(velocityX) = MaxV

\* C8: cornerHits never decreases and grows by at most one per tick.
C8_CornerHitsStep ==
    [][cornerHits' = cornerHits \/ cornerHits' = cornerHits + 1]_vars

\* a second corner hit, counted on a tick that also nudged
C8_Witness ==
    engineRan /\ hitCorner /\ mouse.down /\ cornerHits >= 2

\* C9: a tick that starts Paused and sees a fresh Escape or a fresh Continue
\* press ends Running and runs the Motion Engine.
C9_Resume ==
    [][(paused /\ (Fresh(KeyEscape) \/ Fresh(KeyC)))
         => (~paused' /\ engineRan' /\ ret' = Nil)]_vars

\* resumed by the Continue key alone
C9_Witness ==
    startPaused /\ ~paused /\ engineRan /\ cResumed /\ ~keys[KeyEscape]

\* C10: while Escape stays down it has toggled paused exactly once, on the
\* first tick of the hold; while the Continue key stays down it has cleared
\* paused at most once.
C10_HoldActsOnce ==
    /\ escToggles = (IF keys[KeyEscape] THEN 1 ELSE 0)
    /\ cResumes <= 1

\* Escape held over the first two ticks: paused by the first, not toggled
\* back by the second
C10_Witness ==
    ticks = 2 /\ startPaused /\ paused /\ keys[KeyEscape] /\ escToggles = 1

\* C11: on every tick that ran the Motion Engine, hitCorner is set and
\* cornerHits grows by one exactly when the position after the collisions is
\* within the tolerance of a vertical edge and of a horizontal edge; otherwise
\* hitCorner is clear and cornerHits is unchanged.
C11_CornerDetection ==
    [][engineRan' =>
         LET nearX == \/ logoX' < cornerTolerance * Scale
                      \/ logoX' > (screenWidth - logoWidth - cornerTolerance) * Scale
             nearY == \/ logoY' < cornerTolerance * Scale
                      \/ logoY' > (screenHeight - logoHeight - cornerTolerance) * Scale
         IN  IF nearX /\ nearY
             THEN hitCorner' /\ cornerHits' = cornerHits + 1
             ELSE ~hitCorner' /\ cornerHits' = cornerHits]_vars

\* the logo lingers in the bottom-right band and is counted on each of the
\* first two ticks
C11_Witness ==
    /\ ticks = 2 /\ engineRan /\ hitCorner /\ cornerHits = 2
    /\ logoX > MaxX - Tol /\ logoY > MaxY - Tol

\* C12: on a tick that ran the Motion Engine with the pointer button up, an
\* axis whose integrated coordinate leaves the viewport ends on the wall it
\* crossed with its velocity negated; an axis that stays inside moves by its
\* velocity and keeps it.
C12_WallBounce ==
    [][(engineRan' /\ ~mouse'.down) =>
         /\ (logoX + velocityX < 0
               => logoX' = 0 /\ velocityX' = -velocityX /\ velocityX' > 0)
         /\ (logoX + velocityX + logoWidth * Scale > screenWidth * Scale
               => logoX' = (screenWidth - logoWidth) * Scale
                  /\ velocityX' = -velocityX /\ velocityX' < 0)
         /\ (logoY + velocityY < 0
               => logoY' = 0 /\ velocityY' = -velocityY /\ velocityY' > 0)
         /\ (logoY + velocityY + logoHeight * Scale > screenHeight * Scale
               => logoY' = (screenHeight - logoHeight) * Scale
                  /\ velocityY' = -velocityY /\ velocityY' < 0)
         /\ ((logoX + velocityX >= 0
                /\ logoX + velocityX + logoWidth * Scale <= screenWidth * Scale)
               => (logoX' = logoX + velocityX /\ velocityX' = velocityX))
         /\ ((logoY + velocityY >= 0
                /\ logoY + velocityY + logoHeight * Scale <= screenHeight * Scale)
               => (logoY' = logoY + velocityY /\ velocityY' = velocityY))]_vars

\* the logo has crossed the left wall on a tick without a nudge
C12_Witness ==
    ticks >= 1 /\ engineRan /\ ~mouse.down /\ logoX = 0 /\ velocityX > 0

\* C13: a tick that runs the Motion Engine with zero velocity on both axes
\* and the pointer button up leaves position and velocity unchanged.
C13_RestIsIdempotent ==
    [][(engineRan' /\ ~mouse'.down /\ velocityX = 0 /\ velocityY = 0)
         => UNCHANGED <<logoX, logoY, velocityX, velocityY>>]_vars

\* the logo, stopped by a nudge, has rested through two more ticks
C13_Witness ==
    /\ ticks >= 3 /\ engineRan /\ ~mouse.down /\ ~startPaused
    /\ velocityX = 0 /\ velocityY = 0

\* C14: after every tick the stored was-down flag of each tracked key equals
\* the key's down-state during that tick.
C14_EdgeTrackingEveryTick ==
    \A key \in Keys : keyState[key] = keys[key]

\* C15: on a tick that runs the Motion Engine with the pointer button up,
\* each velocity component is negated if its axis crossed a wall and is
\* unchanged otherwise.
C15_NoNudgeWithoutButton ==
    [][(engineRan' /\ ~mouse'.down) =>
         LET hitX == \/ logoX + velocityX < 0
                     \/ logoX + velocityX + logoWidth * Scale > screenWidth * Scale
             hitY == \/ logoY + velocityY < 0
                     \/ logoY + velocityY + logoHeight * Scale > screenHeight * Scale
         IN  /\ velocityX' = (IF hitX THEN -velocityX ELSE velocityX)
             /\ velocityY' = (IF hitY THEN -velocityY ELSE velocityY)
             /\ Abs(velocityX') = Abs(velocityX)
             /\ Abs(velocityY') = Abs(velocityY)]_vars

\* with the button up, y has bounced off the bottom wall at a nudged speed
\* while x kept its velocity
C15_Witness ==
    /\ engineRan /\ ~mouse.down /\ logoY = MaxY /\ velocityY < 0
    /\ velocityX > 0 /\ velocityY # -(logoStartVelocity * Scale)

\* C16: on a tick that runs the Motion Engine with the pointer button down,
\* each velocity component is its post-collision value plus the nudge of its
\* own axis, limited to [-logoMaxVelocity, logoMaxVelocity].
C16_CopySignClamp ==
    [][(engineRan' /\ mouse'.down) =>
         LET hitX == \/ logoX + velocityX < 0
                     \/ logoX + velocityX + logoWidth * Scale > screenWidth * Scale
             hitY == \/ logoY + velocityY < 0
                     \/ logoY + velocityY + logoHeight * Scale > screenHeight * Scale
             dx == mouse'.x * Scale - (logoX' + (logoWidth * Scale) \div 2)
             dy == mouse'.y * Scale - (logoY' + (logoHeight * Scale) \div 2)
             rawX == (IF hitX THEN -velocityX ELSE velocityX) + DivTrunc(dx, NudgeDivisor)
             rawY == (IF hitY THEN -velocityY ELSE velocityY) + DivTrunc(dy, NudgeDivisor)
             Limit(v) == IF v > logoMaxVelocity * Scale THEN logoMaxVelocity * Scale
                         ELSE IF v < -(logoMaxVelocity * Scale)
                              THEN -(logoMaxVelocity * Scale) ELSE v
         IN  /\ velocityX' = Limit(rawX)
             /\ velocityY' = Limit(rawY)]_vars

\* a nudge has clamped x at the negative limit and left y below the limit
C16_Witness ==
    /\ engineRan /\ mouse.down
    /\ velocityX = -MaxV /\ Abs(velocityY) < MaxV

\* C17: a tick that starts Running ends with terminated clear and without
\* signalling termination, whatever keys are down.
C17_NoTerminationFromRunning ==
    [][~paused => (~terminated' /\ ret' = Nil)]_vars

\* C18: a tick signals termination only if the Quit key is down during it.
C18_NoExitWithoutQuit ==
    ret = Termination => keys[KeyQ]

\* ticks the logo needs, at the start speed, to cross the viewport's width
\* and come back, with one tick spent on each wall
IdlePeriod == 2 * ((screenWidth - logoWidth) \div logoStartVelocity + 1)

\* C19: in a run with no key down and the pointer button up, the session
\* stays Running, neither velocity component comes to rest, a component is
\* reversed whenever its axis crosses a wall, and from every tick that leaves
\* a full period before the end of the explored run each of the four walls
\* is reached again.
C19_KeepsBouncing ==
    /\ [](~paused /\ ~terminated /\ ret = Nil)
    /\ [](velocityX # 0 /\ velocityY # 0)
    /\ [][/\ (logoX + velocityX < 0 \/ logoX + velocityX > MaxX)
                => (velocityX' = -velocityX)
          /\ (logoY + velocityY < 0 \/ logoY + velocityY > MaxY)
                => (velocityY' = -velocityY)]_vars
    /\ (ticks <= MaxIdleTicks - IdlePeriod) ~> (logoX = 0)
    /\ (ticks <= MaxIdleTicks - IdlePeriod) ~> (logoX = MaxX)
    /\ (ticks <= MaxIdleTicks - IdlePeriod) ~> (logoY = 0)
    /\ (ticks <= MaxIdleTicks - IdlePeriod) ~> (logoY = MaxY)

\* after more than a full period the logo has just bounced off the left wall
C19_Witness ==
    /\ ticks > IdlePeriod /\ ~paused /\ engineRan
    /\ logoX = 0 /\ velocityX > 0 /\ keys = NoKeys /\ ~mouse.down
====
